---- MODULE Spec2Model ----
(***************************************************************************)
(* A model of QBL, the question-bank driver of src/QBL.cpp: the processing *)
(* of the command-line options (the callbacks registered in the            *)
(* constructor), and main's pipeline LoadFiles -> Generate -> UpdateOrder  *)
(* -> Print.                                                               *)
(*                                                                         *)
(* QuestionBank (QuestionBank.hpp) and Question (Question.hpp) are         *)
(* included by the driver but their text is not part of src/; the bank's   *)
(* parser, validator, selection engine, orderer and logger are modelled    *)
(* from spec.md (sections 4.1 - 4.5) and marked so at each definition.     *)
(* emp::Random is abstracted to a small deterministic generator whose      *)
(* state is one number; a default-constructed generator is seeded from the *)
(* clock, which is a nondeterministic choice in Init.                      *)
(***************************************************************************)
EXTENDS Integers, Sequences, FiniteSets

(***************************************************************************)
(* Bounds of the model.                                                    *)
(***************************************************************************)
\* The number of options on one command line.
MaxFlags == 3
\* The largest argument of --generate.
MaxCount == 2
\* The largest count argument of --sample.
MaxQuota == 2

(***************************************************************************)
(* The inputs: tags, option arguments, and the files of the file system.   *)
(***************************************************************************)
Tags == {"a", "b"}

\* An option argument naming tags is a string; it is modelled as the
\* sequence of its comma-separated pieces with the commas kept, so that
\* Slice has something to do.
TagArgs == {<<"a">>, <<"b">>}

\* The tag arguments of --sample: one tag, or two in one argument.
SampleArgs == TagArgs \cup {<<"a", ",", "b">>}

OrderArgs == {"random", "id", "alpha", "layout.txt"}

\* Arguments of --seed.  Only positive seeds: what emp::Random does with
\* a seed that is not positive is not part of the sources modelled.
SeedArgs == {1, 2}

\* States a clock-seeded generator may start in.
TimeSeeds == {0, 7}

QuestionFileNames == {"f1", "f2"}
AvoidFileNames == {"prev"}

\* One line of a question file.  kind is "blank" (only whitespace),
\* "comment" (begins with %), "stem", "choice" or "tag".
Line(kind, id, text, tag, correct) ==
  [kind |-> kind, id |-> id, text |-> text, tag |-> tag, correct |-> correct]

BlankLine == Line("blank", 0, 0, "", FALSE)
CommentLine == Line("comment", 0, 0, "", FALSE)
StemLine(id, text) == Line("stem", id, text, "", FALSE)
TagLine(t) == Line("tag", 0, 0, t, FALSE)
ChoiceLine(c) == Line("choice", 0, 0, "", c)

\* The question files.  f1 holds four well-formed questions and ends
\* without a blank line; f2 holds a question with no correct choice and a
\* question with the identifier of f1's first one, and ends with a blank
\* line.  A stem's text is modelled by its rank in lexical order.
FileLines(name) ==
  IF name = "f1" THEN
    << StemLine(1, 3), TagLine("a"), ChoiceLine(TRUE), ChoiceLine(FALSE),
       BlankLine,
       CommentLine,
       StemLine(2, 1), TagLine("a"), TagLine("b"), ChoiceLine(FALSE),
       ChoiceLine(TRUE),
       BlankLine, BlankLine,
       StemLine(3, 4), TagLine("b"), ChoiceLine(TRUE), ChoiceLine(FALSE),
       BlankLine,
       StemLine(4, 2), ChoiceLine(FALSE), CommentLine, ChoiceLine(TRUE) >>
  ELSE
    << BlankLine,
       StemLine(5, 5), TagLine("a"), ChoiceLine(FALSE), ChoiceLine(FALSE),
       BlankLine,
       StemLine(1, 6), ChoiceLine(TRUE), ChoiceLine(FALSE),
       BlankLine >>

\* The avoid files: the log of an earlier run, one identifier per line.
AvoidLines(name) == <<2, 1>>

(***************************************************************************)
(* Helpers on sequences and sets.                                          *)
(***************************************************************************)
Range(s) == {s[i] : i \in DOMAIN s}

RECURSIVE SeqsUpTo(_, _)
SeqsUpTo(S, n) ==
  IF n = 0 THEN {<<>>}
  ELSE LET shorter == SeqsUpTo(S, n - 1)
       IN  shorter \cup {Append(s, x) : s \in shorter, x \in S}

\* The sequences of distinct members of a set.
Arrangements(S) ==
  {s \in SeqsUpTo(S, Cardinality(S)) : \A i, j \in DOMAIN s : s[i] = s[j] => i = j}

Occurrences(s, x) == Cardinality({i \in DOMAIN s : s[i] = x})

\* The n-th smallest (n >= 0) member of a set of numbers.
Nth(S, n) == CHOOSE x \in S : Cardinality({y \in S : y < x}) = n

(***************************************************************************)
(* The lists of question files a command line may name: each file at most  *)
(* once, in any order.                                                     *)
(***************************************************************************)
QuestionFileLists == Arrangements(QuestionFileNames)

(***************************************************************************)
(* emp::Random, abstracted: the state is a number below 12.                *)
(***************************************************************************)
\* ResetSeed with a positive seed.
ResetSeed(seed) == seed % 12

\* GetUInt(n): a value in 0 .. n-1, and the state after the draw.
GetUInt(rng, n) == [value |-> rng % n, rng |-> (rng + 5) % 12]

(***************************************************************************)
(* Question records and the Bank Parser (spec.md 3 and 4.1).               *)
(***************************************************************************)
\* A record with nothing in it yet.
NewQuestion(file, index) ==
  [id |-> 0, stem |-> 0, choices |-> <<>>, tags |-> {},
   source_file |-> file, raw_order_index |-> index]

\* The bank: the finalized records, the record in progress (a sequence of
\* length 0 or 1), the file being read and the number of records begun in it.
EmptyBank == [questions |-> <<>>, cur |-> <<>>, file |-> "", count |-> 0]

\* The end-of-entry separator: finalize the record in progress, if any.
NewEntry(bank) ==
  [bank EXCEPT !.questions = bank.questions \o bank.cur, !.cur = <<>>]

\* At the end of input a record in progress is finalized as if a blank
\* line were present.
EndOfInput(bank) == NewEntry(bank)

\* A new source file: the previous file's input has ended; the per-file
\* state is reset and the pool is kept.
NewFile(bank, filename) ==
  [EndOfInput(bank) EXCEPT !.file = filename, !.count = 0]

\* One line of text for the record in progress, which the first line starts.
AddLine(bank, line) ==
  LET started == bank.cur # <<>>
      q == IF started THEN bank.cur[1]
           ELSE NewQuestion(bank.file, bank.count + 1)
      q2 == CASE line.kind = "stem" ->
                   [q EXCEPT !.id = IF q.id = 0 THEN line.id ELSE q.id,
                             !.stem = line.text]
               [] line.kind = "tag" -> [q EXCEPT !.tags = q.tags \cup {line.tag}]
               [] line.kind = "choice" ->
                   [q EXCEPT !.choices = Append(q.choices, line.correct)]
               [] OTHER -> q
  IN  [bank EXCEPT !.cur = <<q2>>,
                   !.count = IF started THEN bank.count ELSE bank.count + 1]

(***************************************************************************)
(* QBL::LoadFiles (src/QBL.cpp 220-231).                                   *)
(***************************************************************************)
\* file.RemoveIfBegins("%"): the file without its comment lines.
RemoveIfBegins(lines) == SelectSeq(lines, LAMBDA l : l.kind # "comment")

OnlyWhitespace(line) == line.kind = "blank"

\* The loop over a file's lines with an off-by-one bound: the last line is
\* never fed.
\* The body of the loop over a file's lines: a blank line ends the entry,
\* any other line goes to the bank.
FeedLine(bank, line) ==
  IF OnlyWhitespace(line) THEN NewEntry(bank) ELSE AddLine(bank, line)

\* The bank after the first n lines of a file.
RECURSIVE FeedFirst(_, _, _)
FeedFirst(bank, lines, n) ==
  IF n = 0 THEN bank ELSE FeedLine(FeedFirst(bank, lines, n - 1), lines[n])

\* The loop over a file's lines with an off-by-one bound: the last line is
\* never fed.
FeedLinesButLast(bank, lines) ==
  FeedFirst(bank, lines, IF lines = <<>> THEN 0 ELSE Len(lines) - 1)

\* The loop over a file's lines.
FeedLines(bank, lines) == FeedFirst(bank, lines, Len(lines))

\* The loop over the question files.
RECURSIVE LoadFilesInto(_, _)
LoadFilesInto(bank, files) ==
  IF files = <<>> THEN bank
  ELSE LoadFilesInto(
         FeedLines(NewFile(bank, Head(files)), RemoveIfBegins(FileLines(Head(files)))),
         Tail(files))

(***************************************************************************)
(* The Validator (spec.md 4.2): every violation of the pool.               *)
(***************************************************************************)
Correct(q) == {i \in DOMAIN q.choices : q.choices[i]}

Validate(pool) ==
  {<<i, "empty stem">> : i \in {j \in DOMAIN pool : pool[j].stem = 0}}
  \cup {<<i, "fewer than two choices">> :
          i \in {j \in DOMAIN pool : Len(pool[j].choices) < 2}}
  \cup {<<i, "not exactly one correct choice">> :
          i \in {j \in DOMAIN pool : Cardinality(Correct(pool[j])) # 1}}
  \cup {<<i, "duplicate id">> :
          i \in {j \in DOMAIN pool : \E k \in 1 .. j - 1 : pool[k].id = pool[j].id}}

(***************************************************************************)
(* The avoid files and the log (spec.md 4.5).                              *)
(***************************************************************************)
\* LoadAvoidFile: the identifiers on the lines of an avoid file.
LoadAvoidFile(name) == Range(AvoidLines(name))

\* The union of the identifiers listed in all avoid files.
AvoidedIds(files) == UNION {LoadAvoidFile(files[i]) : i \in DOMAIN files}

\* LogQuestions: one identifier per line, in the order of the sequence.
LogQuestions(qs) == [i \in DOMAIN qs |-> qs[i].id]

(***************************************************************************)
(* The Selection Engine (spec.md 4.3).  Questions are named by their       *)
(* position in the pool.                                                   *)
(***************************************************************************)
HasAnyTag(q, tags) == q.tags \cap Range(tags) # {}

\* Steps 1-3 of the filter: not avoided, no exclude tag, and a require tag
\* when any is required.
Filtered(pool, exclude, require, avoided) ==
  {i \in DOMAIN pool :
     /\ pool[i].id \notin avoided
     /\ ~HasAnyTag(pool[i], exclude)
     /\ (require = <<>> \/ HasAnyTag(pool[i], require))}

\* Step 4: with include tags, only questions carrying one of them or a
\* sample tag stay eligible.
Eligible(pool, include, exclude, require, sample, avoided) ==
  LET base == Filtered(pool, exclude, require, avoided)
  IN  IF include = <<>> THEN base
      ELSE {i \in base : HasAnyTag(pool[i], include) \/ HasAnyTag(pool[i], sample)}

\* The quotas in declaration order: the tags of sample_tags in the order of
\* their first appearance; a tag's quota is the number of its repetitions.
QuotaTags(sample) ==
  LET first == {i \in DOMAIN sample : \A j \in 1 .. i - 1 : sample[j] # sample[i]}
  IN  [n \in 1 .. Cardinality(first) |-> sample[Nth(first, n - 1)]]

\* k random draws without replacement from the set left, appended to chosen.
\* st is [chosen, rng, draws].
RECURSIVE DrawFrom(_, _, _)
DrawFrom(st, left, k) ==
  IF k = 0 \/ left = {} THEN st
  ELSE LET d == GetUInt(st.rng, Cardinality(left))
           pick == Nth(left, d.value)
       IN  DrawFrom([chosen |-> Append(st.chosen, pick), rng |-> d.rng,
                     draws |-> st.draws + 1],
                    left \ {pick}, k - 1)

\* All of the set left, in pool order, appended to chosen.
RECURSIVE TakeAll(_, _)
TakeAll(chosen, left) ==
  IF left = {} THEN chosen
  ELSE TakeAll(Append(chosen, Nth(left, 0)), left \ {Nth(left, 0)})

\* The quota draws, one quota after the other: k distinct questions with
\* the tag, those not yet chosen first; all of them when fewer than k exist.
RECURSIVE DrawQuotas(_, _, _, _, _)
DrawQuotas(st, pool, base, sample, tags) ==
  IF tags = <<>> THEN st
  ELSE LET tag == Head(tags)
           k == Occurrences(sample, tag)
           cand == {i \in base : tag \in pool[i].tags}
           fresh == cand \ Range(st.chosen)
           st2 == IF Cardinality(cand) < k
                  THEN [st EXCEPT !.chosen = TakeAll(st.chosen, fresh)]
                  ELSE DrawFrom(st, fresh, k)
       IN  DrawQuotas(st2, pool, base, sample, Tail(tags))

\* The tags whose quota cannot be met (QuotaUnmet).
QuotaUnmet(pool, exclude, require, sample, avoided) ==
  {t \in Range(sample) :
     Cardinality({i \in Filtered(pool, exclude, require, avoided) : t \in pool[i].tags})
       < Occurrences(sample, t)}

\* InsufficientPool: the eligible set is smaller than count.
InsufficientPool(pool, count, include, exclude, require, sample, avoided) ==
  Cardinality(Eligible(pool, include, exclude, require, sample, avoided)) < count

\* Generate: the quota draws, then the fill draws up to count in total.
\* The result is the chosen questions in the order of the draws, the state
\* of the random source and the number of draws made.
SelectQuestions(pool, count, rng, include, exclude, require, sample, avoid_files) ==
  LET avoided == AvoidedIds(avoid_files)
      base == Filtered(pool, exclude, require, avoided)
      elig == Eligible(pool, include, exclude, require, sample, avoided)
      quota == DrawQuotas([chosen |-> <<>>, rng |-> rng, draws |-> 0],
                          pool, base, sample, QuotaTags(sample))
      need == IF Len(quota.chosen) < count THEN count - Len(quota.chosen) ELSE 0
      fill == DrawFrom(quota, elig \ Range(quota.chosen), need)
  IN  [questions |-> [n \in DOMAIN fill.chosen |-> pool[fill.chosen[n]]],
       rng |-> fill.rng, draws |-> fill.draws]

(***************************************************************************)
(* The Orderer (spec.md 4.4).                                              *)
(***************************************************************************)
Swap(qs, i, j) == [qs EXCEPT ![i] = qs[j], ![j] = qs[i]]

\* Randomize: a full shuffle, position i exchanged with a random position
\* from i on.  st is [qs, rng, draws].
RECURSIVE ShuffleFrom(_, _)
ShuffleFrom(st, i) ==
  IF i >= Len(st.qs) THEN st
  ELSE LET d == GetUInt(st.rng, Len(st.qs) - i + 1)
       IN  ShuffleFrom([qs |-> Swap(st.qs, i, i + d.value), rng |-> d.rng,
                        draws |-> st.draws + 1], i + 1)

Randomize(qs, rng) == ShuffleFrom([qs |-> qs, rng |-> rng, draws |-> 0], 1)

\* The key of a terminal ordering: the identifier or the stem text.
SortKey(q, by) == IF by = "id" THEN q.id ELSE q.stem

\* A stable ascending sort by a key.
RECURSIVE InsertSorted(_, _, _)
InsertSorted(sorted, q, by) ==
  IF sorted = <<>> THEN <<q>>
  ELSE IF SortKey(sorted[Len(sorted)], by) <= SortKey(q, by) THEN Append(sorted, q)
  ELSE Append(InsertSorted(SubSeq(sorted, 1, Len(sorted) - 1), q, by),
              sorted[Len(sorted)])

RECURSIVE SortBy(_, _)
SortBy(qs, by) ==
  IF qs = <<>> THEN <<>>
  ELSE InsertSorted(SortBy(SubSeq(qs, 1, Len(qs) - 1), by), qs[Len(qs)], by)

SortID(qs) == SortBy(qs, "id")
SortAlpha(qs) == SortBy(qs, "alpha")

(***************************************************************************)
(* The state of a run of QBL.                                              *)
(***************************************************************************)
VARIABLES
  pc,              \* where the run is: "flags" (flags.Process() in the
                   \* constructor), then main's calls "load", "generate",
                   \* "order", "print", and "done" or "exit"
  nflags,          \* the options processed so far
  generate_count,  \* QBL::generate_count
  order,           \* QBL::order
  include_tags,    \* QBL::include_tags
  exclude_tags,    \* QBL::exclude_tags
  require_tags,    \* QBL::require_tags
  sample_tags,     \* QBL::sample_tags
  avoid_files,     \* QBL::avoid_files
  log_filename,    \* QBL::log_filename
  question_files,  \* QBL::question_files
  random,          \* QBL::random
  qbank,           \* QBL::qbank
  replay,          \* a second run of the same command line on the same
                   \* files: its random source and its questions
  asked,           \* what the user asked for on the command line: whether
                   \* --generate, a recognized --order and --seed were
                   \* given, and the total --sample count of each tag
  loaded,          \* the pool Validate was given
  violations,      \* what Validate returned
  events,          \* the calls made on the bank so far, in order
  draws,           \* who made each draw on the random source, in order
  log_file,        \* the lines written to the log file
  output           \* the questions handed to the renderer

vars == <<pc, nflags, generate_count, order, include_tags, exclude_tags,
          require_tags, sample_tags, avoid_files, log_filename,
          question_files, random, qbank, replay, asked, loaded, violations,
          events, draws, log_file, output>>

config == <<generate_count, order, include_tags, exclude_tags, require_tags,
            sample_tags, avoid_files, log_filename, random, replay, asked>>

pipeline == <<question_files, qbank, loaded, violations, events, draws,
              log_file, output>>

\* The member initializers of QBL (src/QBL.cpp 37-52).
Init ==
  /\ pc = "flags"
  /\ nflags = 0
  /\ generate_count = 0
  /\ order = "DEFAULT"
  /\ include_tags = <<>>
  /\ exclude_tags = <<>>
  /\ require_tags = <<>>
  /\ sample_tags = <<>>
  /\ avoid_files = <<>>
  /\ log_filename = ""
  /\ question_files = <<>>
  /\ random \in TimeSeeds
  /\ qbank = EmptyBank
  /\ \E r \in TimeSeeds \ {random} : replay = [random |-> r, questions |-> <<>>]
  /\ asked = [generate |-> FALSE, order |-> FALSE, seed |-> FALSE,
              quota |-> [t \in Tags |-> 0]]
  /\ loaded = <<>>
  /\ violations = {}
  /\ events = <<>>
  /\ draws = <<>>
  /\ log_file = <<>>
  /\ output = <<>>

(***************************************************************************)
(* The option callbacks (src/QBL.cpp 55-60, 63-126, 164-184).              *)
(***************************************************************************)
\* String::Slice: the comma-separated pieces of an argument.
Slice(arg) == SelectSeq(arg, LAMBDA piece : piece # ",")

\* _AddTags without its loop: the pieces are appended once whatever the count.
AddTagsOnce(tags, arg, count) == tags \o Slice(arg)

\* _AddTags: the pieces of the argument appended count times.
RECURSIVE AddTags(_, _, _)
AddTags(tags, arg, count) ==
  IF count = 0 THEN tags ELSE AddTags(tags \o Slice(arg), arg, count - 1)

\* SetGenerate's last line: an order not set so far becomes random.
OrderAfterGenerate(o) == IF o = "DEFAULT" THEN "RANDOM" ELSE o

\* SetOrder: the three recognized names; anything else changes nothing.
OrderAfterSetOrder(o, arg) ==
  CASE arg = "random" -> "RANDOM"
    [] arg = "id" -> "ID"
    [] arg = "alpha" -> "ALPHABETIC"
    [] OTHER -> o

RecognizedOrder(arg) == arg \in {"random", "id", "alpha"}

\* SetRandomSeed that leaves the generator as it was.
KeepSeed(rng, seed) == rng

\* SetRandomSeed: random.ResetSeed(seed).
SetRandomSeed(rng, seed) == ResetSeed(seed)

Flag == pc = "flags" /\ nflags < MaxFlags

\* --generate: SetGenerate.  A second --generate raises
\* emp::notify::Error, which either ends the run or returns; when it
\* returns the new count replaces the old one.
OptGenerate ==
  /\ Flag
  /\ \E arg \in 0 .. MaxCount :
       \/ /\ generate_count # 0
          /\ pc' = "exit"
          /\ UNCHANGED <<nflags, generate_count, order, asked>>
       \/ /\ pc' = pc
          /\ nflags' = nflags + 1
          /\ generate_count' = arg
          /\ order' = OrderAfterGenerate(order)
          /\ asked' = [asked EXCEPT !.generate = TRUE]
  /\ UNCHANGED <<include_tags, exclude_tags, require_tags, sample_tags,
                 avoid_files, log_filename, random, replay>>
  /\ UNCHANGED pipeline

\* --seed: SetRandomSeed.
OptSeed ==
  /\ Flag
  /\ \E arg \in SeedArgs :
       /\ random' = SetRandomSeed(random, arg)
       /\ replay' = [replay EXCEPT !.random = SetRandomSeed(replay.random, arg)]
  /\ asked' = [asked EXCEPT !.seed = TRUE]
  /\ nflags' = nflags + 1
  /\ UNCHANGED <<pc, generate_count, order, include_tags, exclude_tags,
                 require_tags, sample_tags, avoid_files, log_filename>>
  /\ UNCHANGED pipeline

\* --order: SetOrder.
OptOrder ==
  /\ Flag
  /\ \E arg \in OrderArgs :
       /\ order' = OrderAfterSetOrder(order, arg)
       /\ asked' = [asked EXCEPT !.order = asked.order \/ RecognizedOrder(arg)]
  /\ nflags' = nflags + 1
  /\ UNCHANGED <<pc, generate_count, include_tags, exclude_tags, require_tags,
                 sample_tags, avoid_files, log_filename, random, replay>>
  /\ UNCHANGED pipeline

\* --include.
OptInclude ==
  /\ Flag
  /\ \E arg \in TagArgs : include_tags' = AddTags(include_tags, arg, 1)
  /\ nflags' = nflags + 1
  /\ UNCHANGED <<pc, generate_count, order, exclude_tags, require_tags,
                 sample_tags, avoid_files, log_filename, random, replay, asked>>
  /\ UNCHANGED pipeline

\* --require.
OptRequire ==
  /\ Flag
  /\ \E arg \in TagArgs : require_tags' = AddTags(require_tags, arg, 1)
  /\ nflags' = nflags + 1
  /\ UNCHANGED <<pc, generate_count, order, include_tags, exclude_tags,
                 sample_tags, avoid_files, log_filename, random, replay, asked>>
  /\ UNCHANGED pipeline

\* --exclude.
OptExclude ==
  /\ Flag
  /\ \E arg \in TagArgs : exclude_tags' = AddTags(exclude_tags, arg, 1)
  /\ nflags' = nflags + 1
  /\ UNCHANGED <<pc, generate_count, order, include_tags, require_tags,
                 sample_tags, avoid_files, log_filename, random, replay, asked>>
  /\ UNCHANGED pipeline

\* --sample: the tags of the first argument, the count of the second.
OptSample ==
  /\ Flag
  /\ \E tag_arg \in SampleArgs, count_arg \in 1 .. MaxQuota :
       /\ sample_tags' = AddTags(sample_tags, tag_arg, count_arg)
       /\ asked' = [asked EXCEPT !.quota =
                      [t \in Tags |-> IF t \in Range(Slice(tag_arg))
                                      THEN asked.quota[t] + count_arg
                                      ELSE asked.quota[t]]]
  /\ nflags' = nflags + 1
  /\ UNCHANGED <<pc, generate_count, order, include_tags, exclude_tags,
                 require_tags, avoid_files, log_filename, random, replay>>
  /\ UNCHANGED pipeline

\* --log.
OptLog ==
  /\ Flag
  /\ log_filename' = "log"
  /\ nflags' = nflags + 1
  /\ UNCHANGED <<pc, generate_count, order, include_tags, exclude_tags,
                 require_tags, sample_tags, avoid_files, random, replay, asked>>
  /\ UNCHANGED pipeline

\* --avoid.
OptAvoid ==
  /\ Flag
  /\ \E arg \in AvoidFileNames : avoid_files' = Append(avoid_files, arg)
  /\ nflags' = nflags + 1
  /\ UNCHANGED <<pc, generate_count, order, include_tags, exclude_tags,
                 require_tags, sample_tags, log_filename, random, replay, asked>>
  /\ UNCHANGED pipeline

\* --help: PrintHelp ends the run.
OptHelp ==
  /\ Flag
  /\ pc' = "exit"
  /\ UNCHANGED nflags
  /\ UNCHANGED config
  /\ UNCHANGED pipeline

\* The end of flags.Process(): the arguments that are no options are the
\* question files.  With no argument at all main has ended the run already.
FlagsDone ==
  /\ pc = "flags"
  /\ \E files \in QuestionFileLists :
       /\ nflags = 0 => files # <<>>
       /\ question_files' = files
  /\ pc' = "load"
  /\ UNCHANGED nflags
  /\ UNCHANGED config
  /\ UNCHANGED <<qbank, loaded, violations, events, draws, log_file, output>>

(***************************************************************************)
(* main's pipeline (src/QBL.cpp 452-456) and the methods it calls.         *)
(***************************************************************************)
\* main with UpdateOrder called before Generate.
StageAfterSwapped(stage) ==
  CASE stage = "load" -> "order"
    [] stage = "order" -> "generate"
    [] stage = "generate" -> "print"
    [] OTHER -> "done"

\* main: LoadFiles, Generate, UpdateOrder, Print, in this order.
StageAfter(stage) ==
  CASE stage = "load" -> "generate"
    [] stage = "generate" -> "order"
    [] stage = "order" -> "print"
    [] OTHER -> "done"

Repeat(x, n) == [i \in 1 .. n |-> x]

\* QBL::LoadFiles.
LoadFiles ==
  /\ pc = "load"
  /\ qbank' = LoadFilesInto(qbank, question_files)
  /\ events' = Append(events, "LoadFiles")
  /\ pc' = StageAfter("load")
  /\ UNCHANGED nflags
  /\ UNCHANGED config
  /\ UNCHANGED <<question_files, loaded, violations, draws, log_file, output>>

\* QBL::Generate (src/QBL.cpp 233-239): qbank.Validate(), whose result is
\* not looked at, then qbank.Generate when generate_count is not zero.
\* The result: the questions of the bank, the state of the random source,
\* the number of draws and the calls made.
QBLGenerate(pool, count, rng, include, exclude, require, sample, avoid) ==
  IF count # 0
  THEN LET sel == SelectQuestions(pool, count, rng, include, exclude, require,
                                  sample, avoid)
       IN  [questions |-> sel.questions, rng |-> sel.rng, draws |-> sel.draws,
            calls |-> <<"Validate", "Generate">>]
  ELSE [questions |-> pool, rng |-> rng, draws |-> 0, calls |-> <<"Validate">>]

Generate ==
  /\ pc = "generate"
  /\ LET bank == EndOfInput(qbank)
         run == QBLGenerate(bank.questions, generate_count, random,
                            include_tags, exclude_tags, require_tags,
                            sample_tags, avoid_files)
         again == QBLGenerate(bank.questions, generate_count, replay.random,
                              include_tags, exclude_tags, require_tags,
                              sample_tags, avoid_files)
     IN  /\ loaded' = bank.questions
         /\ violations' = Validate(bank.questions)
         /\ qbank' = [bank EXCEPT !.questions = run.questions]
         /\ random' = run.rng
         /\ replay' = [random |-> again.rng, questions |-> again.questions]
         /\ draws' = draws \o Repeat("select", run.draws)
         /\ events' = events \o run.calls
  /\ pc' = StageAfter("generate")
  /\ UNCHANGED <<nflags, generate_count, order, include_tags, exclude_tags,
                 require_tags, sample_tags, avoid_files, log_filename, asked>>
  /\ UNCHANGED <<question_files, log_file, output>>

\* UpdateOrder whose default case shuffles too.
UpdateOrderAlwaysRandom(o, qs, rng) ==
  CASE o = "ID" -> [qs |-> SortID(qs), rng |-> rng, draws |-> 0]
    [] o = "ALPHABETIC" -> [qs |-> SortAlpha(qs), rng |-> rng, draws |-> 0]
    [] OTHER -> Randomize(qs, rng)

\* QBL::UpdateOrder (src/QBL.cpp 186-193).
UpdateOrder(o, qs, rng) ==
  CASE o = "DEFAULT" -> [qs |-> qs, rng |-> rng, draws |-> 0]
    [] o = "RANDOM" -> Randomize(qs, rng)
    [] o = "ID" -> [qs |-> SortID(qs), rng |-> rng, draws |-> 0]
    [] o = "ALPHABETIC" -> [qs |-> SortAlpha(qs), rng |-> rng, draws |-> 0]

Order ==
  /\ pc = "order"
  /\ LET run == UpdateOrder(order, qbank.questions, random)
         again == UpdateOrder(order, replay.questions, replay.random)
     IN  /\ qbank' = [qbank EXCEPT !.questions = run.qs]
         /\ random' = run.rng
         /\ replay' = [random |-> again.rng, questions |-> again.qs]
         /\ draws' = draws \o Repeat("shuffle", run.draws)
  /\ events' = Append(events, "UpdateOrder")
  /\ pc' = StageAfter("order")
  /\ UNCHANGED <<nflags, generate_count, order, include_tags, exclude_tags,
                 require_tags, sample_tags, avoid_files, log_filename, asked>>
  /\ UNCHANGED <<question_files, loaded, violations, log_file, output>>

\* QBL::Print (src/QBL.cpp 253-269): the log when one was asked for, then
\* the questions in the output format.  The renderers are outside the
\* model: whatever the format, the renderer is handed the bank's sequence.
QBLPrint ==
  /\ pc = "print"
  /\ IF log_filename # ""
     THEN /\ log_file' = LogQuestions(qbank.questions)
          /\ events' = events \o <<"LogQuestions", "Print">>
     ELSE /\ UNCHANGED log_file
          /\ events' = Append(events, "Print")
  /\ output' = qbank.questions
  /\ pc' = StageAfter("print")
  /\ UNCHANGED nflags
  /\ UNCHANGED config
  /\ UNCHANGED <<question_files, qbank, loaded, violations, draws>>

Next ==
  \/ OptGenerate
  \/ OptSeed
  \/ OptOrder
  \/ OptInclude
  \/ OptRequire
  \/ OptExclude
  \/ OptSample
  \/ OptLog
  \/ OptAvoid
  \/ OptHelp
  \/ FlagsDone
  \/ LoadFiles
  \/ Generate
  \/ Order
  \/ QBLPrint

Spec == Init /\ [][Next]_vars

(***************************************************************************)
(* The properties.                                                         *)
(***************************************************************************)
Called(call) == call \in Range(events)

\* The questions of the bank once QBL::Generate has returned.
Chosen == Range(qbank.questions)

\* The questions of the loaded pool that pass the avoid, exclude and
\* require filters.
Passing ==
  {loaded[i] : i \in Filtered(loaded, exclude_tags, require_tags,
                              AvoidedIds(avoid_files))}

\* C1 (avoid-exclusion): once QBL::Generate has returned, no question of
\* the bank has an identifier listed in an avoid file, so a run given an
\* earlier run's log as avoid file repeats none of its questions.
AvoidExclusion ==
  Called("Validate") =>
    /\ \A q \in Chosen : q.id \notin AvoidedIds(avoid_files)
    /\ \A i \in DOMAIN output : output[i].id \notin AvoidedIds(avoid_files)

\* C2 (exclusion dominance): once QBL::Generate has returned, no question
\* of the bank carries an exclude tag, whatever the other options are.
ExclusionDominance ==
  Called("Validate") =>
    /\ \A q \in Chosen : ~HasAnyTag(q, exclude_tags)
    /\ \A i \in DOMAIN output : ~HasAnyTag(output[i], exclude_tags)

\* C3 (validation gates the pipeline): when Validate found a violation, the
\* run makes no selection, ordering, logging or rendering call and
\* produces no output.
ValidationGates ==
  violations # {} =>
    /\ ~Called("Generate")
    /\ ~Called("UpdateOrder")
    /\ ~Called("LogQuestions")
    /\ ~Called("Print")
    /\ output = <<>>

\* C4 (size bound): the sequence qbank.Generate produced is no longer than
\* the count, and as long as the count unless InsufficientPool or
\* QuotaUnmet was reported.
SizeBound ==
  Called("Generate") =>
    /\ Len(qbank.questions) <= generate_count
    /\ \/ Len(qbank.questions) = generate_count
       \/ InsufficientPool(loaded, generate_count, include_tags, exclude_tags,
                           require_tags, sample_tags, AvoidedIds(avoid_files))
       \/ QuotaUnmet(loaded, exclude_tags, require_tags, sample_tags,
                     AvoidedIds(avoid_files)) # {}

\* C5 (quota lower bound): for every tag, with k the total count the user
\* gave for it with --sample, when at least k questions carrying the tag
\* pass the filters, the sequence qbank.Generate produced holds at least k
\* distinct questions carrying the tag.
QuotaLowerBound ==
  Called("Generate") =>
    \A t \in Tags :
      Cardinality({q \in Passing : t \in q.tags}) >= asked.quota[t]
        => Cardinality({q \in Chosen : t \in q.tags}) >= asked.quota[t]

\* A run where two quotas overlap on a question: both tags sampled, and a
\* question carrying both chosen.
QuotaLowerBoundWitness ==
  /\ Called("Generate")
  /\ \A t \in Tags :
       /\ asked.quota[t] >= 1
       /\ Cardinality({q \in Passing : t \in q.tags}) >= asked.quota[t]
  /\ \E q \in Chosen : q.tags = Tags

DefaultOrderKeeps ==
  [][(pc = "order" /\ ~asked.order) => qbank'.questions = qbank.questions]_vars

\* C7 as amended: with no recognized --order value and no --generate
\* option, UpdateOrder leaves the sequence as it finds it.
DefaultOrderKeepsUnlessGenerate ==
  [][(pc = "order" /\ ~asked.order /\ ~asked.generate)
       => qbank'.questions = qbank.questions]_vars

\* A run with neither option, past UpdateOrder, with the questions of two
\* files in insertion order.
DefaultOrderWitness ==
  /\ pc = "print"
  /\ ~asked.order
  /\ ~asked.generate
  /\ Len(question_files) = 2
  /\ Len(qbank.questions) >= 2
  /\ qbank.questions = loaded

\* The pool the same files give when each ends with one more blank line.
RECURSIVE LoadWithBlank(_, _)
LoadWithBlank(bank, files) ==
  IF files = <<>> THEN bank
  ELSE LoadWithBlank(
         FeedLines(NewFile(bank, Head(files)),
                   Append(RemoveIfBegins(FileLines(Head(files))), BlankLine)),
         Tail(files))

IncludeAll ==
  Called("Generate") =>
    \A q \in Passing : HasAnyTag(q, include_tags) => q \in Chosen

\* The calls a complete run makes on the bank, in order.
ExpectedCalls ==
  <<"LoadFiles", "Validate">>
  \o (IF generate_count # 0 THEN <<"Generate">> ELSE <<>>)
  \o <<"UpdateOrder">>
  \o (IF log_filename # "" THEN <<"LogQuestions">> ELSE <<>>)
  \o <<"Print">>

\* C10 (fixed stage order): the calls made so far are the beginning of
\* LoadFiles, Validate, Generate (only with a count that is not zero),
\* UpdateOrder, LogQuestions (only with a log file), Print, each made once;
\* a run that is done has made them all; and no draw of the selection
\* follows a draw of the shuffle.
FixedStageOrder ==
  /\ Len(events) <= Len(ExpectedCalls)
  /\ events = SubSeq(ExpectedCalls, 1, Len(events))
  /\ pc = "done" => events = ExpectedCalls
  /\ pc \in {"flags", "load", "exit"} => events = <<>>
  /\ \A i, j \in DOMAIN draws :
       (draws[i] = "shuffle" /\ draws[j] = "select") => j < i

\* A complete run that selected, shuffled and logged.
FixedStageOrderWitness ==
  /\ pc = "done"
  /\ Called("Generate")
  /\ Called("LogQuestions")
  /\ "select" \in Range(draws)
  /\ "shuffle" \in Range(draws)

====
